---- MODULE Spec2Model ----
(***************************************************************************)
(* Model of the Gravity JavaScript SDK (Try-Gravity/gravity-js).           *)
(*                                                                         *)
(* The API client exists in two variants in the sources:                   *)
(*   - "legacy": POST /ad, single-ad response       (unnamed/part_010)     *)
(*   - "v1":     POST /api/v1/ad/contextual          (packages/api/client.ts)*)
(* A client is constructed once; getAd assembles a body, issues one POST   *)
(* through the client's axios instance and, when the POST settles, maps    *)
(* the outcome to a value or null.                                         *)
(***************************************************************************)
EXTENDS Integers, Sequences, FiniteSets, TLC

VARIABLES
    ctor,     \* the arguments the client was constructed with
    client,   \* the Client instance (its private fields and axios config)
    calls,    \* the getAd invocations, one record per slot
    flow,     \* the caller's two-phase bid() + render() flow
    comps     \* the mounted AdBanner / AdText instances, one record per slot

vars == <<ctor, client, calls, flow, comps>>

(***************************************************************************)
(* Bounds of the model.                                                    *)
(***************************************************************************)
\* number of getAd invocations that can be in flight at once
MaxCalls == 1
\* longest ads array a server response carries
MaxAds == 1
\* number of renders one mounted component goes through
MaxRenders == 3

(***************************************************************************)
(* JavaScript values.  Every value has the same shape so that values of    *)
(* different JavaScript types can be compared.                             *)
(***************************************************************************)
Undefined == [type |-> "undefined", num |-> 0, str |-> "", arr |-> <<>>]
Null == [type |-> "null", num |-> 0, str |-> "", arr |-> <<>>]
JSNum(n) == [type |-> "number", num |-> n, str |-> "", arr |-> <<>>]
JSStr(s) == [type |-> "string", num |-> 0, str |-> s, arr |-> <<>>]
JSArr(a) == [type |-> "array", num |-> 0, str |-> "", arr |-> a]

\* ToBoolean: undefined, null, 0 and "" are falsy; arrays are truthy
Truthy(v) ==
    CASE v.type = "undefined" -> FALSE
      [] v.type = "null" -> FALSE
      [] v.type = "number" -> v.num # 0
      [] v.type = "string" -> v.str # ""
      [] OTHER -> TRUE

\* a || b
OrElse(a, b) == IF Truthy(a) THEN a ELSE b

\* a ?? b
Coalesce(a, b) == IF a.type \in {"undefined", "null"} THEN b ELSE a

\* An object is a function from its own keys to values.
EmptyObj == [k \in {} |-> Undefined]

\* o.k : a missing key reads as undefined
Get(o, k) == IF k \in DOMAIN o THEN o[k] ELSE Undefined

\* { ...a, ...b } : keys of b win
Spread(a, b) ==
    [k \in (DOMAIN a) \cup (DOMAIN b) |-> IF k \in DOMAIN b THEN b[k] ELSE a[k]]

(***************************************************************************)
(* Program constants.                                                      *)
(***************************************************************************)
DEFAULT_ENDPOINT == "https://server.trygravity.ai"
REQUEST_TIMEOUT == 10000

(***************************************************************************)
(* Client construction.                                                    *)
(***************************************************************************)
\* axios.create({ baseURL, timeout, headers })
AxiosCreate(baseURL, timeout, apiKey) ==
    [ baseURL |-> baseURL,
      timeout |-> timeout,
      headers |-> [ Authorization |-> "Bearer " \o apiKey.str,
                    ContentType |-> "application/json" ] ]

\* mutant: the constructor takes params.endpoint as it is, without the default
NewClientV1_NoDefault(apiKey, params) ==
    LET endpoint == Get(params, "endpoint")
    IN  [ variant |-> "v1",
          apiKey |-> apiKey,
          endpoint |-> endpoint,
          excludedTopics |-> OrElse(Get(params, "excludedTopics"), JSArr(<<>>)),
          relevancy |-> Coalesce(Get(params, "relevancy"), Null),
          axios |-> AxiosCreate(endpoint, REQUEST_TIMEOUT, apiKey) ]

\* v1 constructor
NewClientV1(apiKey, params) ==
    LET endpoint == OrElse(Get(params, "endpoint"), JSStr(DEFAULT_ENDPOINT))
    IN  [ variant |-> "v1",
          apiKey |-> apiKey,
          endpoint |-> endpoint,
          excludedTopics |-> OrElse(Get(params, "excludedTopics"), JSArr(<<>>)),
          relevancy |-> Coalesce(Get(params, "relevancy"), Null),
          axios |-> AxiosCreate(endpoint, REQUEST_TIMEOUT, apiKey) ]

\* legacy constructor
NewClientLegacy(apiKey, params) ==
    LET endpoint == OrElse(Get(params, "endpoint"), JSStr(DEFAULT_ENDPOINT))
    IN  [ variant |-> "legacy",
          apiKey |-> apiKey,
          endpoint |-> endpoint,
          excludedTopics |-> OrElse(Get(params, "excludedTopics"), JSArr(<<>>)),
          relevancy |-> OrElse(Get(params, "relevancy"), Null),
          axios |-> AxiosCreate(endpoint, REQUEST_TIMEOUT, apiKey) ]

(***************************************************************************)
(* Requests, responses and results.                                        *)
(*                                                                         *)
(* A payload (response.data) is nothing, an object or an array of ads.     *)
(* An object carries its scalar properties in obj and, when hasAds, an     *)
(* "ads" property holding the array ads.                                   *)
(***************************************************************************)
EmptyData == [kind |-> "empty", obj |-> EmptyObj, hasAds |-> FALSE, ads |-> <<>>]
ObjectData(o) == [kind |-> "object", obj |-> o, hasAds |-> FALSE, ads |-> <<>>]
ArrayData(a) == [kind |-> "array", obj |-> EmptyObj, hasAds |-> FALSE, ads |-> a]
AdResponseData(a, o) == [kind |-> "object", obj |-> o, hasAds |-> TRUE, ads |-> a]

\* the value a getAd promise resolves to: null or a payload-shaped value
NullResult == [kind |-> "null", obj |-> EmptyObj, hasAds |-> FALSE, ads |-> <<>>]

\* ToBoolean(response.data): an empty body is falsy, objects and arrays truthy
DataTruthy(data) == data.kind # "empty"

\* response.data.<k> for a scalar property k
DataProp(data, k) == IF data.kind = "object" THEN Get(data.obj, k) ELSE Undefined

\* Array.isArray(response.data)
IsArray(data) == data.kind = "array"

\* this.axios.post(url, body): the request the axios instance sends
AxiosPost(axios, url, body) ==
    [ baseURL |-> axios.baseURL,
      url |-> url,
      timeout |-> axios.timeout,
      headers |-> axios.headers,
      data |-> body ]

(***************************************************************************)
(* How a POST settles.  axios resolves the promise for a 2xx status and    *)
(* rejects it with an AxiosError otherwise.                                *)
(***************************************************************************)
\* response.statusText: the reason phrase that comes with a status
StatusText(s) ==
    CASE s = 200 -> "OK"
      [] s = 204 -> "No Content"
      [] s = 401 -> "Unauthorized"
      [] s = 404 -> "Not Found"
      [] s = 422 -> "Unprocessable Entity"
      [] s = 429 -> "Too Many Requests"
      [] s = 500 -> "Internal Server Error"
      [] OTHER -> ""

NoOutcome ==
    [ settled |-> "none", status |-> 0, statusText |-> "", data |-> EmptyData, isAxiosError |-> FALSE,
      hasResponse |-> FALSE, hasRequest |-> FALSE, code |-> "", message |-> "" ]

\* the server answered with status s and payload d
ServerResponse(s, d) ==
    IF s >= 200 /\ s < 300
    THEN [ settled |-> "resolved", status |-> s, statusText |-> StatusText(s), data |-> d, isAxiosError |-> FALSE,
           hasResponse |-> TRUE, hasRequest |-> TRUE, code |-> "", message |-> "" ]
    ELSE [ settled |-> "rejected", status |-> s, statusText |-> StatusText(s), data |-> d, isAxiosError |-> TRUE,
           hasResponse |-> TRUE, hasRequest |-> TRUE,
           code |-> IF s >= 500 THEN "ERR_BAD_RESPONSE" ELSE "ERR_BAD_REQUEST",
           message |-> "Request failed" ]

\* the request was sent and no response arrived (network failure, timeout)
NoResponse(code) ==
    [ settled |-> "rejected", status |-> 0, statusText |-> "", data |-> EmptyData, isAxiosError |-> TRUE,
      hasResponse |-> FALSE, hasRequest |-> TRUE, code |-> code,
      message |-> IF code = "ECONNABORTED" THEN "timeout of 10000ms exceeded"
                  ELSE "Network Error" ]

\* the request could not be set up
SetupError ==
    [ settled |-> "rejected", status |-> 0, statusText |-> "", data |-> EmptyData, isAxiosError |-> TRUE,
      hasResponse |-> FALSE, hasRequest |-> FALSE, code |-> "", message |-> "setup" ]

\* something that is no AxiosError was thrown
OtherError ==
    [ settled |-> "rejected", status |-> 0, statusText |-> "", data |-> EmptyData, isAxiosError |-> FALSE,
      hasResponse |-> FALSE, hasRequest |-> FALSE, code |-> "", message |-> "boom" ]

(***************************************************************************)
(* handleError: the one console.error line a failure produces.             *)
(***************************************************************************)
\* mutant: the request is looked at before the response
HandleError_RequestFirst(error, method) ==
    IF error.isAxiosError
    THEN IF error.hasRequest
         THEN [ method |-> method, tag |-> "Network Error", status |-> 0,
                statusText |-> "", data |-> EmptyData, code |-> error.code,
                message |-> "No response received from server" ]
         ELSE IF error.hasResponse
              THEN [ method |-> method, tag |-> "API Error", status |-> error.status,
                     statusText |-> error.statusText, data |-> error.data,
                     code |-> "", message |-> "" ]
              ELSE [ method |-> method, tag |-> "Request Error", status |-> 0,
                     statusText |-> "", data |-> EmptyData, code |-> "",
                     message |-> error.message ]
    ELSE [ method |-> method, tag |-> "Unexpected Error", status |-> 0,
           statusText |-> "", data |-> EmptyData, code |-> "",
           message |-> error.message ]

HandleError(error, method) ==
    IF error.isAxiosError
    THEN IF error.hasResponse
         THEN [ method |-> method, tag |-> "API Error", status |-> error.status,
                statusText |-> error.statusText, data |-> error.data,
                code |-> "", message |-> "" ]
         ELSE IF error.hasRequest
              THEN [ method |-> method, tag |-> "Network Error", status |-> 0,
                     statusText |-> "", data |-> EmptyData, code |-> error.code,
                     message |-> "No response received from server" ]
              ELSE [ method |-> method, tag |-> "Request Error", status |-> 0,
                     statusText |-> "", data |-> EmptyData, code |-> "",
                     message |-> error.message ]
    ELSE [ method |-> method, tag |-> "Unexpected Error", status |-> 0,
           statusText |-> "", data |-> EmptyData, code |-> "",
           message |-> error.message ]

(***************************************************************************)
(* getAd, v1 variant (POST /api/v1/ad/contextual).                         *)
(***************************************************************************)
\* mutant: the parameters are spread after the merged fields and win over them
GetAdV1Body_SpreadLast(c, params) ==
    Spread([ excludedTopics |-> Coalesce(Get(params, "excludedTopics"), c.excludedTopics),
             relevancy |-> Coalesce(Get(params, "relevancy"), c.relevancy) ],
           params)

\* mutant: the merge uses || where the code uses ??
GetAdV1Body_OrMerge(c, params) ==
    Spread(params,
           [ excludedTopics |-> OrElse(Get(params, "excludedTopics"), c.excludedTopics),
             relevancy |-> OrElse(Get(params, "relevancy"), c.relevancy) ])

\* the body getAd assembles
GetAdV1Body(c, params) ==
    Spread(params,
           [ excludedTopics |-> Coalesce(Get(params, "excludedTopics"), c.excludedTopics),
             relevancy |-> Coalesce(Get(params, "relevancy"), c.relevancy) ])

\* mutant: the merged fields are assigned to the caller's object
GetAdV1ParamsAfter_MergedInPlace(c, params) == GetAdV1Body(c, params)

\* the caller's params object once the body is built: the spread copies its
\* properties into a new object literal and nothing is assigned to params
GetAdV1ParamsAfter(c, params) == params

\* the POSTs one invocation issues
GetAdV1Posts(c, params) ==
    << AxiosPost(c.axios, "/api/v1/ad/contextual", GetAdV1Body(c, params)) >>

\* the value returned once the POST has resolved with `response`
GetAdV1Return(response) ==
    IF response.status = 204
    THEN NullResult
    ELSE IF DataTruthy(response.data) /\ IsArray(response.data)
            /\ Len(response.data.ads) > 0
         THEN response.data
         ELSE NullResult

\* mutant: the catch block treats every 404 as render() treats an expired bid
GetAdV1Settle_Silent404(outcome) ==
    IF outcome.settled = "resolved"
    THEN [ promise |-> "fulfilled", result |-> GetAdV1Return(outcome),
           console |-> <<>> ]
    ELSE [ promise |-> "fulfilled", result |-> NullResult,
           console |-> IF outcome.status = 404 THEN <<>>
                       ELSE << HandleError(outcome, "getAd") >> ]

\* mutant: no catch block, a failed POST rejects the promise of getAd
GetAdV1Settle_NoCatch(outcome) ==
    IF outcome.settled = "resolved"
    THEN [ promise |-> "fulfilled", result |-> GetAdV1Return(outcome),
           console |-> <<>> ]
    ELSE [ promise |-> "rejected", result |-> NullResult, console |-> <<>> ]

\* the whole continuation after the await: try block or catch block
GetAdV1Settle(outcome) ==
    IF outcome.settled = "resolved"
    THEN [ promise |-> "fulfilled", result |-> GetAdV1Return(outcome),
           console |-> <<>> ]
    ELSE [ promise |-> "fulfilled", result |-> NullResult,
           console |-> << HandleError(outcome, "getAd") >> ]

(***************************************************************************)
(* getAd, legacy variant (POST /ad).                                       *)
(***************************************************************************)
\* mutant: the legacy merge uses || where the code uses ??
GetAdLegacyBody_OrMerge(c, params) ==
    Spread(params,
           [ apiKey |-> Coalesce(Get(params, "apiKey"), c.apiKey),
             excludedTopics |-> OrElse(Get(params, "excludedTopics"), c.excludedTopics),
             relevancy |-> OrElse(Get(params, "relevancy"), c.relevancy) ])

\* mutant: the body always carries the client's key, a per-call apiKey is ignored
GetAdLegacyBody_ClientKeyOnly(c, params) ==
    Spread(params,
           [ apiKey |-> c.apiKey,
             excludedTopics |-> Coalesce(Get(params, "excludedTopics"), c.excludedTopics),
             relevancy |-> Coalesce(Get(params, "relevancy"), c.relevancy) ])

GetAdLegacyBody(c, params) ==
    Spread(params,
           [ apiKey |-> Coalesce(Get(params, "apiKey"), c.apiKey),
             excludedTopics |-> Coalesce(Get(params, "excludedTopics"), c.excludedTopics),
             relevancy |-> Coalesce(Get(params, "relevancy"), c.relevancy) ])

\* the caller's params object once the body is built (nothing is assigned to it)
GetAdLegacyParamsAfter(c, params) == params

\* mutant: the request is sent a second time (a retry)
GetAdLegacyPosts_Retry(c, params) ==
    << AxiosPost(c.axios, "/ad", GetAdLegacyBody(c, params)),
       AxiosPost(c.axios, "/ad", GetAdLegacyBody(c, params)) >>

\* mutant: a per-call apiKey also replaces the bearer token of the request
GetAdLegacyPosts_CallKeyInHeader(c, params) ==
    << [ AxiosPost(c.axios, "/ad", GetAdLegacyBody(c, params))
           EXCEPT !.headers.Authorization =
                    "Bearer " \o Coalesce(Get(params, "apiKey"), c.apiKey).str ] >>

GetAdLegacyPosts(c, params) ==
    << AxiosPost(c.axios, "/ad", GetAdLegacyBody(c, params)) >>

\* mutant: the 204 check is missing
GetAdLegacyReturn_No204(response) ==
    IF DataTruthy(response.data) /\ Truthy(DataProp(response.data, "adText"))
    THEN ObjectData([ adText |-> DataProp(response.data, "adText"),
                      impUrl |-> DataProp(response.data, "impUrl"),
                      clickUrl |-> DataProp(response.data, "clickUrl"),
                      payout |-> DataProp(response.data, "payout") ])
    ELSE NullResult

GetAdLegacyReturn(response) ==
    IF response.status = 204
    THEN NullResult
    ELSE IF DataTruthy(response.data) /\ Truthy(DataProp(response.data, "adText"))
         THEN ObjectData([ adText |-> DataProp(response.data, "adText"),
                           impUrl |-> DataProp(response.data, "impUrl"),
                           clickUrl |-> DataProp(response.data, "clickUrl"),
                           payout |-> DataProp(response.data, "payout") ])
         ELSE NullResult

GetAdLegacySettle(outcome) ==
    IF outcome.settled = "resolved"
    THEN [ promise |-> "fulfilled", result |-> GetAdLegacyReturn(outcome),
           console |-> <<>> ]
    ELSE [ promise |-> "fulfilled", result |-> NullResult,
           console |-> << HandleError(outcome, "getAd") >> ]

(***************************************************************************)
(* Inputs.                                                                 *)
(***************************************************************************)
\* the API key given to the constructor, and one a caller may pass per call
ApiKeys == { JSStr("K1") }
CallApiKey == JSStr("K2")

CustomEndpoint == JSStr("https://custom.api.com")
DefaultTopics == JSArr(<< "politics" >>)
CallTopics == JSArr(<< "gambling" >>)

\* ClientParams objects (relevancy in hundredths)
ClientParamsSet ==
    { EmptyObj,
      [ endpoint |-> CustomEndpoint ],
      [ endpoint |-> JSStr("") ],
      [ excludedTopics |-> DefaultTopics ],
      [ relevancy |-> JSNum(0) ],
      [ excludedTopics |-> DefaultTopics, relevancy |-> JSNum(60) ] }

Messages == JSArr(<< "user: hiking trails" >>)

\* AdParams objects
AdParamsSet ==
    { [ messages |-> Messages ],
      [ messages |-> Messages, excludedTopics |-> JSArr(<<>>) ],
      [ messages |-> Messages, excludedTopics |-> CallTopics ],
      [ messages |-> Messages, relevancy |-> Null ],
      [ messages |-> Messages, relevancy |-> JSNum(0) ],
      [ messages |-> Messages, relevancy |-> JSNum(80) ],
      [ messages |-> Messages, apiKey |-> CallApiKey ],
      [ messages |-> Messages, sessionId |-> JSStr("s1"), apiKey |-> CallApiKey,
        excludedTopics |-> CallTopics, relevancy |-> JSNum(80) ] }

\* ads a server may return (payout in cents)
GoodAd ==
    [ adText |-> JSStr("Buy boots"), adId |-> JSStr("a1"),
      impUrl |-> JSStr("https://t/i"), clickUrl |-> JSStr("https://t/c"),
      payout |-> JSNum(50) ]
NoTextAd == [ adId |-> JSStr("a2"), clickUrl |-> JSStr("https://t/c2") ]
EmptyTextAd == [ adText |-> JSStr(""), adId |-> JSStr("a3") ]

\* arrays of at most MaxAds ads, the last of them possibly without ad copy
AdArrays ==
    { [ i \in 1..n |-> IF i = j THEN NoTextAd ELSE GoodAd ] :
        <<n, j>> \in { x \in (0..MaxAds) \X (0..MaxAds) : x[2] \in {0, x[1]} } }

\* payloads of a 200 response
SuccessPayloads ==
    { EmptyData, ObjectData(GoodAd), ObjectData(NoTextAd), ObjectData(EmptyTextAd) }
    \cup { ArrayData(a) : a \in AdArrays }
    \cup { AdResponseData([ i \in 1..n |-> GoodAd ], [ numAds |-> JSNum(n) ]) :
              n \in 1..MaxAds }
    \cup { AdResponseData(<< NoTextAd >>, [ numAds |-> JSNum(1) ]) }

ErrorStatuses == { 401, 404, 422, 429, 500 }
ErrorBody == ObjectData([ error |-> JSStr("fail") ])

\* every way a POST can settle
Outcomes ==
    { ServerResponse(200, d) : d \in SuccessPayloads }
    \cup { ServerResponse(204, d) : d \in { EmptyData, ObjectData(GoodAd),
                                             ArrayData(<< GoodAd >>) } }
    \cup { ServerResponse(s, ErrorBody) : s \in ErrorStatuses }
    \cup { NoResponse("ECONNABORTED"), NoResponse("ERR_NETWORK"), SetupError, OtherError }

(***************************************************************************)
(* The state machine.                                                      *)
(***************************************************************************)
\* params is the caller's object as it is now, arg a copy of it as it was
\* when getAd was entered
IdleCall ==
    [ state |-> "idle", params |-> EmptyObj, arg |-> EmptyObj, posts |-> <<>>,
      outcome |-> NoOutcome, promise |-> "none", result |-> NullResult,
      console |-> <<>> ]

Construct(variant, apiKey, params) ==
    IF variant = "v1" THEN NewClientV1(apiKey, params)
    ELSE NewClientLegacy(apiKey, params)

\* no bid() has been made yet
IdleFlow ==
    [ state |-> "no-bid", bidResult |-> NullResult, renderParams |-> EmptyObj,
      renderResult |-> NullResult, outcome |-> NoOutcome, posts |-> <<>>,
      console |-> <<>>, lapsed |-> FALSE ]

\* no component is rendered
NoComps == [ i \in {} |-> 0 ]

Init ==
    /\ ctor \in [ variant : {"legacy", "v1"}, apiKey : ApiKeys, params : ClientParamsSet ]
    /\ client = Construct(ctor.variant, ctor.apiKey, ctor.params)
    /\ calls = [ i \in 1..MaxCalls |-> IdleCall ]
    /\ flow = IdleFlow
    /\ comps = NoComps

\* mutant: a call whose parameters equal those of a call in flight sends no
\* request of its own
CallGetAdV1_Deduplicated(i, params) ==
    /\ client.variant = "v1"
    /\ calls[i].state = "idle"
    /\ calls' = [ calls EXCEPT ![i] =
                    [ IdleCall EXCEPT !.state = "pending",
                                      !.params = GetAdV1ParamsAfter(client, params),
                                      !.arg = params,
                                      !.posts = IF \E j \in DOMAIN calls :
                                                     /\ calls[j].state = "pending"
                                                     /\ calls[j].arg = params
                                                THEN <<>>
                                                ELSE GetAdV1Posts(client, params),
                                      !.promise = "pending" ] ]
    /\ UNCHANGED <<ctor, client, flow, comps>>

\* mutant: getAd keeps the merged values of the call as the client's defaults
CallGetAdV1_KeepsOverrides(i, params) ==
    /\ client.variant = "v1"
    /\ calls[i].state = "idle"
    /\ calls' = [ calls EXCEPT ![i] =
                    [ IdleCall EXCEPT !.state = "pending",
                                      !.params = GetAdV1ParamsAfter(client, params),
                                      !.arg = params,
                                      !.posts = GetAdV1Posts(client, params),
                                      !.promise = "pending" ] ]
    /\ client' = [ client EXCEPT
                     !.excludedTopics = GetAdV1Body(client, params)["excludedTopics"],
                     !.relevancy = GetAdV1Body(client, params)["relevancy"] ]
    /\ UNCHANGED <<ctor, flow, comps>>

\* a caller invokes getAd(params); the body is assembled and the POST issued
CallGetAdV1(i, params) ==
    /\ client.variant = "v1"
    /\ calls[i].state = "idle"
    /\ calls' = [ calls EXCEPT ![i] =
                    [ IdleCall EXCEPT !.state = "pending",
                                      !.params = GetAdV1ParamsAfter(client, params),
                                      !.arg = params,
                                      !.posts = GetAdV1Posts(client, params),
                                      !.promise = "pending" ] ]
    /\ UNCHANGED <<ctor, client, flow, comps>>

CallGetAdLegacy(i, params) ==
    /\ client.variant = "legacy"
    /\ calls[i].state = "idle"
    /\ calls' = [ calls EXCEPT ![i] =
                    [ IdleCall EXCEPT !.state = "pending",
                                      !.params = GetAdLegacyParamsAfter(client, params),
                                      !.arg = params,
                                      !.posts = GetAdLegacyPosts(client, params),
                                      !.promise = "pending" ] ]
    /\ UNCHANGED <<ctor, client, flow, comps>>

\* the POST settles and getAd runs to its return
SettleGetAdV1(i, outcome) ==
    /\ client.variant = "v1"
    /\ calls[i].state = "pending"
    /\ LET r == GetAdV1Settle(outcome)
       IN  calls' = [ calls EXCEPT ![i].state = "settled", ![i].outcome = outcome,
                                   ![i].promise = r.promise, ![i].result = r.result,
                                   ![i].console = r.console ]
    /\ UNCHANGED <<ctor, client, flow, comps>>

SettleGetAdLegacy(i, outcome) ==
    /\ client.variant = "legacy"
    /\ calls[i].state = "pending"
    /\ LET r == GetAdLegacySettle(outcome)
       IN  calls' = [ calls EXCEPT ![i].state = "settled", ![i].outcome = outcome,
                                   ![i].promise = r.promise, ![i].result = r.result,
                                   ![i].console = r.console ]
    /\ UNCHANGED <<ctor, client, flow, comps>>

\* the caller has taken the result; the slot serves the next invocation
Consume(i) ==
    /\ calls[i].state = "settled"
    /\ calls' = [ calls EXCEPT ![i] = IdleCall ]
    /\ UNCHANGED <<ctor, client, flow, comps>>

Next ==
    \/ \E i \in DOMAIN calls, params \in AdParamsSet : CallGetAdV1(i, params)
    \/ \E i \in DOMAIN calls, params \in AdParamsSet : CallGetAdLegacy(i, params)
    \/ \E i \in DOMAIN calls, outcome \in Outcomes : SettleGetAdV1(i, outcome)
    \/ \E i \in DOMAIN calls, outcome \in Outcomes : SettleGetAdLegacy(i, outcome)
    \/ \E i \in DOMAIN calls : Consume(i)

Spec == Init /\ [][Next]_vars

(***************************************************************************)
(* Helpers of the properties.                                              *)
(***************************************************************************)
\* the invocations that have issued their POST
Issued == { i \in DOMAIN calls : calls[i].state # "idle" }
\* the invocations that have returned
Settled == { i \in DOMAIN calls : calls[i].state = "settled" }
\* the body of the request invocation i sent
BodyOf(i) == calls[i].posts[1].data

MergedFields == { "excludedTopics", "relevancy" }

\* the client-level default of field f as the constructor stores it
StoredDefault(f) ==
    IF f = "excludedTopics"
    THEN IF "excludedTopics" \in DOMAIN ctor.params
         THEN ctor.params["excludedTopics"] ELSE JSArr(<<>>)
    ELSE IF /\ "relevancy" \in DOMAIN ctor.params
            /\ ctor.params["relevancy"].type = "number"
            /\ ~(ctor.variant = "legacy" /\ ctor.params["relevancy"].num = 0)
         THEN ctor.params["relevancy"] ELSE Null

\* the ads a non-null result exposes
ResultAds(r) == IF r.kind = "array" \/ r.hasAds THEN r.ads ELSE << r.obj >>

(***************************************************************************)
(* C1: whenever the POST of getAd fails (an HTTP error status, no          *)
(* response, a request-setup error or a non-axios exception), the promise  *)
(* of getAd is fulfilled with null, never rejected, and console.error has  *)
(* been called.                                                            *)
(***************************************************************************)
C1_FailureYieldsNull ==
    \A i \in Settled :
        calls[i].outcome.settled = "rejected" =>
            /\ calls[i].promise = "fulfilled"
            /\ calls[i].result = NullResult
            /\ Len(calls[i].console) >= 1

C1_Witness ==
    \E i \in Settled :
        /\ calls[i].outcome = NoResponse("ECONNABORTED")
        /\ calls[i].promise = "fulfilled"
        /\ calls[i].result = NullResult
        /\ Len(calls[i].console) = 1

(***************************************************************************)
(* C2: in both variants a 204 response makes getAd resolve to null         *)
(* whatever the body holds, and nothing is logged.                         *)
(***************************************************************************)
C2_NoContentYieldsNull ==
    \A i \in Settled :
        (calls[i].outcome.settled = "resolved" /\ calls[i].outcome.status = 204) =>
            /\ calls[i].promise = "fulfilled"
            /\ calls[i].result = NullResult
            /\ calls[i].console = <<>>

C2_Witness ==
    \E i \in Settled :
        /\ calls[i].outcome = ServerResponse(204, ObjectData(GoodAd))
        /\ client.variant = "legacy"
        /\ calls[i].result = NullResult

(***************************************************************************)
(* C3 as claimed: each of excludedTopics and relevancy in the body is the  *)
(* per-call value when provided, else the default given at construction,   *)
(* else absent from the body.                                              *)
(***************************************************************************)
C3_AbsentWhenNoDefault ==
    \A i \in Issued : \A f \in MergedFields :
        IF f \in DOMAIN calls[i].params
        THEN f \in DOMAIN BodyOf(i) /\ BodyOf(i)[f] = calls[i].params[f]
        ELSE IF f \in DOMAIN ctor.params
             THEN f \in DOMAIN BodyOf(i) /\ BodyOf(i)[f] = ctor.params[f]
             ELSE f \notin DOMAIN BodyOf(i)

(***************************************************************************)
(* C3 amended: each of excludedTopics and relevancy is always present in   *)
(* the body; it is the per-call value when that is neither undefined nor   *)
(* null, else the default the constructor stored: the list given or [],    *)
(* the relevancy given or null (legacy: null also for a given 0).          *)
(***************************************************************************)
C3_MergedFields ==
    \A i \in Issued : \A f \in MergedFields :
        /\ f \in DOMAIN BodyOf(i)
        /\ BodyOf(i)[f] =
             IF Get(calls[i].params, f).type \in {"undefined", "null"}
             THEN StoredDefault(f)
             ELSE calls[i].params[f]

C3_Witness ==
    \E i \in Issued :
        /\ DOMAIN ctor.params = {}
        /\ DOMAIN calls[i].params = {"messages"}
        /\ BodyOf(i)["excludedTopics"] = JSArr(<<>>)
        /\ BodyOf(i)["relevancy"] = Null

(***************************************************************************)
(* C4: a 200 response whose body is {ads: [one ad or more], numAds, ...}   *)
(* makes getAd resolve to that object unchanged.                           *)
(***************************************************************************)
C4_AdResponseUnchanged ==
    \A i \in Settled :
        ( /\ calls[i].outcome.settled = "resolved"
          /\ calls[i].outcome.status = 200
          /\ calls[i].outcome.data.hasAds
          /\ Len(calls[i].outcome.data.ads) >= 1 ) =>
            calls[i].result = calls[i].outcome.data

(***************************************************************************)
(* C5: a 200 response whose payload is a single ad object with a non-empty *)
(* adText makes getAd resolve to an object with that ad's adText, impUrl,  *)
(* clickUrl and payout.                                                    *)
(***************************************************************************)
C5_SingleAdReturned ==
    \A i \in Settled :
        ( /\ calls[i].outcome.settled = "resolved"
          /\ calls[i].outcome.status = 200
          /\ calls[i].outcome.data.kind = "object"
          /\ ~calls[i].outcome.data.hasAds
          /\ Truthy(DataProp(calls[i].outcome.data, "adText")) ) =>
            /\ calls[i].result.kind = "object"
            /\ \A f \in {"adText", "impUrl", "clickUrl", "payout"} :
                 Get(calls[i].result.obj, f) = DataProp(calls[i].outcome.data, f)

(***************************************************************************)
(* C6: every ad of every non-null result of getAd carries ad copy (a       *)
(* success payload with an ad lacking adText resolves to null).            *)
(***************************************************************************)
C6_NoAdWithoutCopy ==
    \A i \in Settled :
        calls[i].result.kind # "null" =>
            \A n \in 1..Len(ResultAds(calls[i].result)) :
                Truthy(Get(ResultAds(calls[i].result)[n], "adText"))

(***************************************************************************)
(* C7: a non-null result for a 200 response with a populated ads array     *)
(* has numAds equal to the length of its ads array.                        *)
(***************************************************************************)
C7_NumAdsIsLength ==
    \A i \in Settled :
        ( /\ calls[i].outcome.settled = "resolved"
          /\ calls[i].outcome.status = 200
          /\ (calls[i].outcome.data.hasAds \/ IsArray(calls[i].outcome.data))
          /\ Len(calls[i].outcome.data.ads) >= 1
          /\ calls[i].result.kind # "null" ) =>
            Get(calls[i].result.obj, "numAds") = JSNum(Len(calls[i].result.ads))

(***************************************************************************)
(* C8: every invocation of getAd issues exactly one POST: one is out while *)
(* the call is pending, and the call returns, whatever the outcome, with   *)
(* that one POST and no other.                                             *)
(***************************************************************************)
C8_ExactlyOnePost ==
    \A i \in Issued : Len(calls[i].posts) = 1

C8_Witness ==
    \E i \in Settled :
        /\ calls[i].outcome = ServerResponse(500, ErrorBody)
        /\ Len(calls[i].posts) = 1

(***************************************************************************)
(* C9 as claimed: the request body of every getAd call carries the API     *)
(* key of the constructor, replaced by a per-call apiKey in the legacy     *)
(* variant only.                                                           *)
(***************************************************************************)
C9_BodyCarriesCredential ==
    \A i \in Issued :
        /\ "apiKey" \in DOMAIN BodyOf(i)
        /\ BodyOf(i)["apiKey"] =
             IF ctor.variant = "legacy" /\ "apiKey" \in DOMAIN calls[i].params
             THEN calls[i].params["apiKey"] ELSE ctor.apiKey

(***************************************************************************)
(* C9 amended: every getAd request carries the constructor's API key as    *)
(* the bearer token of its Authorization header.  The body carries an      *)
(* apiKey only in the legacy variant (the per-call apiKey when given, else *)
(* the constructor's key); the v1 variant adds none: its body has an       *)
(* apiKey entry only when the caller's params had one, passed unchanged.   *)
(***************************************************************************)
C9_CredentialCarried ==
    \A i \in Issued :
        /\ calls[i].posts[1].headers.Authorization = "Bearer " \o ctor.apiKey.str
        /\ IF ctor.variant = "legacy"
           THEN /\ "apiKey" \in DOMAIN BodyOf(i)
                /\ BodyOf(i)["apiKey"] =
                     IF Get(calls[i].params, "apiKey").type \in {"undefined", "null"}
                     THEN ctor.apiKey ELSE calls[i].params["apiKey"]
           ELSE /\ ("apiKey" \in DOMAIN BodyOf(i)) = ("apiKey" \in DOMAIN calls[i].params)
                /\ Get(BodyOf(i), "apiKey") = Get(calls[i].params, "apiKey")

C9_Witness ==
    \E i \in Issued :
        /\ ctor.variant = "v1"
        /\ "apiKey" \notin DOMAIN BodyOf(i)
        /\ calls[i].posts[1].headers.Authorization = "Bearer K1"

(***************************************************************************)
(* C10: every request goes to the endpoint given at construction (a        *)
(* non-empty string), else to https://server.trygravity.ai, with the       *)
(* header Authorization: Bearer K; the axios configuration of the client   *)
(* holds these values in every state, whatever calls have been made.       *)
(***************************************************************************)
ExpectedBaseURL ==
    IF Get(ctor.params, "endpoint").type = "string" /\ Get(ctor.params, "endpoint").str # ""
    THEN ctor.params["endpoint"]
    ELSE JSStr("https://server.trygravity.ai")

C10_EndpointAndAuthFixed ==
    /\ client.axios.baseURL = ExpectedBaseURL
    /\ client.axios.headers.Authorization = "Bearer " \o ctor.apiKey.str
    /\ \A i \in Issued :
         /\ calls[i].posts[1].baseURL = ExpectedBaseURL
         /\ calls[i].posts[1].headers.Authorization = "Bearer " \o ctor.apiKey.str

C10_Witness ==
    \E i \in Settled :
        /\ ctor.params = [ endpoint |-> CustomEndpoint ]
        /\ Get(calls[i].params, "apiKey") = CallApiKey
        /\ calls[i].posts[1].baseURL = CustomEndpoint
        /\ client.axios.headers.Authorization = "Bearer K1"

(***************************************************************************)
(* The two-phase flow: bid() for a price, then render() for the ad.        *)
(*                                                                         *)
(* The README shows the caller's side of the flow and part_007 declares    *)
(* the request and response types.  The bodies of Client.bid and           *)
(* Client.render are not among the sources: BidSettle and RenderSettle     *)
(* follow the documented contract (a value or null, errors logged, a 404   *)
(* to render being an expired bid and not an error).                       *)
(***************************************************************************)
BidPath == "/api/v1/bid"
RenderPath == "/api/v1/render"

\* BidParams objects
BidParamsSet ==
    { [ messages |-> Messages, sessionId |-> JSStr("session-123") ] }

\* BidResponse bodies (prices in hundredths)
BidResponses ==
    { ObjectData([ bid |-> JSNum(250), bidId |-> JSStr("b1") ]),
      ObjectData([ bid |-> JSNum(100), bidId |-> JSStr("b2") ]) }

\* the price a caller may realize besides the clearing price
OtherPrice == JSNum(200)

\* every way the bid POST can settle
BidOutcomes ==
    { ServerResponse(200, d) : d \in BidResponses \cup { EmptyData } }
    \cup { ServerResponse(204, EmptyData) }
    \cup { ServerResponse(s, ErrorBody) : s \in ErrorStatuses }
    \cup { NoResponse("ERR_NETWORK") }

\* every way the render POST can settle
RenderOutcomes ==
    { ServerResponse(200, AdResponseData([ i \in 1..n |-> GoodAd ],
                                         [ numAds |-> JSNum(n) ])) : n \in 0..MaxAds }
    \cup { ServerResponse(204, EmptyData) }
    \cup { ServerResponse(s, ErrorBody) : s \in ErrorStatuses }
    \cup { NoResponse("ECONNABORTED") }

\* client.bid(params): one POST of the parameters to the bid endpoint
BidPosts(c, params) == << AxiosPost(c.axios, BidPath, params) >>

\* client.render(params): one POST of the parameters to the render endpoint
RenderPosts(c, params) == << AxiosPost(c.axios, RenderPath, params) >>

\* bid() once its POST has settled: the BidResponse, or null
BidSettle(outcome) ==
    IF outcome.settled = "resolved"
    THEN [ promise |-> "fulfilled",
           result |-> IF outcome.status # 204
                         /\ Truthy(DataProp(outcome.data, "bidId"))
                      THEN outcome.data ELSE NullResult,
           console |-> <<>> ]
    ELSE [ promise |-> "fulfilled", result |-> NullResult,
           console |-> << HandleError(outcome, "bid") >> ]

\* render() once its POST has settled: the AdResponse, or null; a 404 is an
\* expired bid and is not reported
RenderSettle(outcome) ==
    IF outcome.settled = "resolved"
    THEN [ promise |-> "fulfilled",
           result |-> IF outcome.status # 204 /\ outcome.data.hasAds
                         /\ Len(outcome.data.ads) > 0
                      THEN outcome.data ELSE NullResult,
           console |-> <<>> ]
    ELSE IF outcome.hasResponse /\ outcome.status = 404
         THEN [ promise |-> "fulfilled", result |-> NullResult, console |-> <<>> ]
         ELSE [ promise |-> "fulfilled", result |-> NullResult,
                console |-> << HandleError(outcome, "render") >> ]

\* mutant: render is issued with the handle of an earlier bid
RenderParamsOf_StaleHandle(bidResult, price) ==
    [ bidId |-> JSStr("b1"), realizedPrice |-> price ]

\* { bidId: bidResult.bidId, realizedPrice: <the price the caller settles on> }
RenderParamsOf(bidResult, price) ==
    [ bidId |-> DataProp(bidResult, "bidId"), realizedPrice |-> price ]

\* the prices a caller may pass: the clearing price, as in the README, or another
RealizedPrices(bidResult) == { DataProp(bidResult, "bid"), OtherPrice }

\* phase 1: the caller asks for a bid
FlowBid(params) ==
    /\ client.variant = "v1"
    /\ flow.state \in { "no-bid", "rendered", "expired" }
    /\ flow' = [ IdleFlow EXCEPT !.state = "bidding",
                                 !.posts = BidPosts(client, params) ]
    /\ UNCHANGED <<ctor, client, calls, comps>>

\* bid() returns; `if (bidResult)` decides whether a handle is held
FlowBidSettle(outcome) ==
    /\ flow.state = "bidding"
    /\ LET r == BidSettle(outcome)
       IN  flow' = [ flow EXCEPT !.state = IF r.result # NullResult
                                           THEN "bid-held" ELSE "no-bid",
                                 !.bidResult = r.result,
                                 !.outcome = outcome,
                                 !.console = r.console ]
    /\ UNCHANGED <<ctor, client, calls, comps>>

\* phase 2: the caller redeems the handle it holds
FlowRender(price) ==
    /\ flow.state = "bid-held"
    /\ LET params == RenderParamsOf(flow.bidResult, price)
       IN  flow' = [ flow EXCEPT !.state = "rendering",
                                 !.renderParams = params,
                                 !.posts = flow.posts \o RenderPosts(client, params) ]
    /\ UNCHANGED <<ctor, client, calls, comps>>

\* render() returns: an ad response, null for an expired bid, or null otherwise
FlowRenderSettle(outcome) ==
    /\ flow.state = "rendering"
    /\ LET r == RenderSettle(outcome)
       IN  flow' = [ flow EXCEPT !.state = IF r.result # NullResult THEN "rendered"
                                           ELSE IF outcome.status = 404 THEN "expired"
                                           ELSE "no-bid",
                                 !.renderResult = r.result,
                                 !.outcome = outcome,
                                 !.console = flow.console \o r.console ]
    /\ UNCHANGED <<ctor, client, calls, comps>>

\* the caller decides not to render; the handle lapses on the server
FlowLapse ==
    /\ flow.state = "bid-held"
    /\ flow' = [ flow EXCEPT !.state = "no-bid", !.lapsed = TRUE ]
    /\ UNCHANGED <<ctor, client, calls, comps>>

InitFlow ==
    /\ ctor \in [ variant : {"v1"}, apiKey : ApiKeys,
                  params : { EmptyObj, [ endpoint |-> CustomEndpoint ] } ]
    /\ client = Construct(ctor.variant, ctor.apiKey, ctor.params)
    /\ calls = [ i \in {1} |-> IdleCall ]
    /\ flow = IdleFlow
    /\ comps = NoComps

NextFlow ==
    \/ \E params \in BidParamsSet : FlowBid(params)
    \/ \E outcome \in BidOutcomes : FlowBidSettle(outcome)
    \/ \E price \in RealizedPrices(flow.bidResult) : FlowRender(price)
    \/ \E outcome \in RenderOutcomes : FlowRenderSettle(outcome)
    \/ FlowLapse
    \/ \E i \in DOMAIN calls, params \in AdParamsSet : CallGetAdV1(i, params)
    \/ \E i \in DOMAIN calls, outcome \in Outcomes : SettleGetAdV1(i, outcome)
    \/ \E i \in DOMAIN calls : Consume(i)

SpecFlow == InitFlow /\ [][NextFlow]_vars

(***************************************************************************)
(* Properties of the two-phase flow.                                       *)
(***************************************************************************)
\* the bid POST of this round has settled
BidSettled == Len(flow.posts) = 1 /\ flow.state # "bidding"
\* the render POST of this round has settled
RenderSettled == Len(flow.posts) = 2 /\ flow.state # "rendering"

\* a console line reporting an API error with status s from `method`
IsApiErrorLine(line, method, s) ==
    line.method = method /\ line.tag = "API Error" /\ line.status = s

\* C11: a 404 answer to render() yields null and nothing is logged; a 404
\* answer to any other call of the client (bid(), getAd()) yields null and
\* one error line is logged.
C11_Only404OfRenderIsSilent ==
    /\ (RenderSettled /\ flow.outcome.status = 404)
         => flow.renderResult = NullResult /\ flow.console = <<>>
    /\ (BidSettled /\ flow.outcome.status = 404)
         => /\ flow.bidResult = NullResult
            /\ Len(flow.console) = 1
            /\ IsApiErrorLine(flow.console[1], "bid", 404)
    /\ \A i \in DOMAIN calls :
         (calls[i].state = "settled" /\ calls[i].outcome.status = 404)
           => /\ calls[i].promise = "fulfilled"
              /\ calls[i].result = NullResult
              /\ Len(calls[i].console) = 1
              /\ IsApiErrorLine(calls[i].console[1], "getAd", 404)

\* render() was answered 404 while a getAd() answered 404 has just returned
C11_Witness ==
    /\ RenderSettled /\ flow.outcome.status = 404
    /\ flow.renderParams = [ bidId |-> JSStr("b1"), realizedPrice |-> JSNum(250) ]
    /\ \E i \in DOMAIN calls :
         calls[i].state = "settled" /\ calls[i].outcome.status = 404

\* C12: the flow follows no-bid -> bid-held -> rendered | expired.  A bid that
\* returns null leaves the flow in no-bid; a successful bid yields a handle
\* and a price; render is posted with exactly that handle and a price the
\* caller chose; a successful render ends in rendered, a render answered 404
\* ends in expired with a null result; a handle that lapses costs no request.
C12_TwoPhaseFlow ==
    /\ flow.state \in { "no-bid", "bidding", "bid-held", "rendering", "rendered",
                        "expired" }
    /\ (BidSettled /\ flow.bidResult = NullResult) => flow.state = "no-bid"
    /\ (BidSettled /\ flow.bidResult # NullResult /\ ~flow.lapsed)
         => /\ flow.state = "bid-held"
            /\ DataProp(flow.bidResult, "bidId").type = "string"
            /\ DataProp(flow.bidResult, "bid").type = "number"
    /\ flow.state \in { "rendering", "rendered", "expired" } => Len(flow.posts) = 2
    /\ Len(flow.posts) = 2
         => /\ flow.posts[1].url = BidPath
            /\ flow.posts[2].url = RenderPath
            /\ DOMAIN flow.posts[2].data = { "bidId", "realizedPrice" }
            /\ flow.posts[2].data["bidId"] = DataProp(flow.bidResult, "bidId")
            /\ flow.posts[2].data["realizedPrice"].type = "number"
    /\ flow.state = "rendered" <=> (RenderSettled /\ flow.renderResult # NullResult)
    /\ flow.state = "expired" <=> (RenderSettled /\ flow.outcome.status = 404)
    /\ flow.state = "expired" => flow.renderResult = NullResult
    /\ flow.lapsed
         => flow.state = "no-bid" /\ Len(flow.posts) = 1 /\ flow.posts[1].url = BidPath

\* the second handle was redeemed at a price other than the clearing price
C12_Witness ==
    /\ flow.state = "rendered"
    /\ flow.renderParams = [ bidId |-> JSStr("b2"), realizedPrice |-> OtherPrice ]
    /\ Len(flow.renderResult.ads) = 1

(***************************************************************************)
(* The React components AdBanner and AdText and their hook useAdTracking.  *)
(*                                                                         *)
(* An ad object has an identity (id): React compares the dependencies of   *)
(* an effect with Object.is, so two objects with equal fields differ.      *)
(* Functions passed as props are named; "absent" is a prop left out.       *)
(***************************************************************************)
\* ad = null
NullAd ==
    [ id |-> 0, adText |-> Undefined, impUrl |-> Undefined, clickUrl |-> Undefined ]
AdA ==
    [ id |-> 1, adText |-> JSStr("Buy boots"),
      impUrl |-> JSStr("https://t/i1"), clickUrl |-> JSStr("https://t/c1") ]
\* another object carrying the same ad
AdACopy == [ AdA EXCEPT !.id = 2 ]
AdB ==
    [ id |-> 3, adText |-> JSStr("Buy a tent"),
      impUrl |-> JSStr("https://t/i2"), clickUrl |-> JSStr("https://t/c2") ]
\* an ad without tracking URLs, and one whose tracking URLs are empty strings
AdNoUrls ==
    [ id |-> 4, adText |-> JSStr("Buy a map"), impUrl |-> Undefined,
      clickUrl |-> Undefined ]
AdEmptyUrls ==
    [ id |-> 5, adText |-> JSStr("Buy a map"), impUrl |-> JSStr(""),
      clickUrl |-> JSStr("") ]

AdObjects == { NullAd, AdA, AdACopy, AdB, AdNoUrls, AdEmptyUrls }

\* !ad
IsNullAd(ad) == ad.id = 0

\* ad?.impUrl and ad?.clickUrl
ImpUrlOf(ad) == IF IsNullAd(ad) THEN Undefined ELSE ad.impUrl
ClickUrlOf(ad) == IF IsNullAd(ad) THEN Undefined ELSE ad.clickUrl

\* the props that do not steer impression tracking
LookProps ==
    { [ className |-> "absent", openInNewTab |-> "absent", fallback |-> "absent",
        onClick |-> "absent", onClickTracked |-> "absent" ],
      [ className |-> "promo", openInNewTab |-> "true", fallback |-> "No ad",
        onClick |-> "onClick", onClickTracked |-> "onClickTracked" ],
      [ className |-> "absent", openInNewTab |-> "false", fallback |-> "absent",
        onClick |-> "onClick", onClickTracked |-> "onClickTracked" ] }

\* the props that steer impression tracking
TrackProps ==
    [ ad : AdObjects, disableImpressionTracking : BOOLEAN,
      onImpression : { "absent", "onImpression1", "onImpression2" } ]

\* the props of one render
PropsOf(track, look) ==
    [ ad |-> track.ad,
      disableImpressionTracking |-> track.disableImpressionTracking,
      onImpression |-> track.onImpression,
      className |-> look.className, openInNewTab |-> look.openInNewTab,
      fallback |-> look.fallback, onClick |-> look.onClick,
      onClickTracked |-> look.onClickTracked ]

\* openInNewTab = true when the prop is left out
OpenInNewTab(props) == props.openInNewTab # "false"

\* one observable step of an effect or a handler
Event(ev, arg) == [ ev |-> ev, arg |-> arg ]

(***************************************************************************)
(* useAdTracking: the impression effect, the reset effect, handleClick.    *)
(***************************************************************************)
\* mutant: the guard of the impression effect forgets disableImpressionTracking
TrackImpressionEffect_IgnoreDisabled(props, impressionTracked) ==
    IF IsNullAd(props.ad) \/ ~Truthy(props.ad.impUrl) \/ impressionTracked
    THEN [ impressionTracked |-> impressionTracked, events |-> <<>> ]
    ELSE [ impressionTracked |-> TRUE,
           events |-> << Event("beacon", props.ad.impUrl.str) >>
                      \o IF props.onImpression # "absent"
                         THEN << Event("onImpression", props.onImpression) >>
                         ELSE <<>> ]

\* mutant: onImpression is invoked ahead of the guard
TrackImpressionEffect_CallbackUnguarded(props, impressionTracked) ==
    LET called == IF props.onImpression # "absent"
                  THEN << Event("onImpression", props.onImpression) >> ELSE <<>>
    IN  IF IsNullAd(props.ad) \/ ~Truthy(props.ad.impUrl)
           \/ props.disableImpressionTracking \/ impressionTracked
        THEN [ impressionTracked |-> impressionTracked, events |-> called ]
        ELSE [ impressionTracked |-> TRUE,
               events |-> called \o << Event("beacon", props.ad.impUrl.str) >> ]

\* the first effect: guard, then trackImpression() (new Image().src = impUrl,
\* impressionTracked.current = true, onImpression?.())
TrackImpressionEffect(props, impressionTracked) ==
    IF IsNullAd(props.ad) \/ ~Truthy(props.ad.impUrl)
       \/ props.disableImpressionTracking \/ impressionTracked
    THEN [ impressionTracked |-> impressionTracked, events |-> <<>> ]
    ELSE [ impressionTracked |-> TRUE,
           events |-> << Event("beacon", props.ad.impUrl.str) >>
                      \o IF props.onImpression # "absent"
                         THEN << Event("onImpression", props.onImpression) >>
                         ELSE <<>> ]

\* the second effect: impressionTracked.current = false
ResetEffect(impressionTracked) == FALSE

\* mutant: disableImpressionTracking is missing from the dependencies
TrackDepsChanged_NoDisable(prev, props) ==
    \/ prev.ad.id # props.ad.id
    \/ prev.onImpression # props.onImpression

\* the dependencies [ad, disableImpressionTracking, onImpression] changed
TrackDepsChanged(prev, props) ==
    \/ prev.ad.id # props.ad.id
    \/ prev.disableImpressionTracking # props.disableImpressionTracking
    \/ prev.onImpression # props.onImpression

\* the dependency [ad?.impUrl] changed
ResetDepsChanged(prev, props) == ImpUrlOf(prev.ad) # ImpUrlOf(props.ad)

\* after a render is committed React runs, in the order of their declaration,
\* the effects of a mount, or else those whose dependencies changed
RunEffects(mount, prev, props, impressionTracked) ==
    LET first == IF mount \/ TrackDepsChanged(prev, props)
                 THEN TrackImpressionEffect(props, impressionTracked)
                 ELSE [ impressionTracked |-> impressionTracked, events |-> <<>> ]
    IN  [ impressionTracked |-> IF mount \/ ResetDepsChanged(prev, props)
                                THEN ResetEffect(first.impressionTracked)
                                ELSE first.impressionTracked,
          events |-> first.events ]

\* handleClick: if (!ad?.clickUrl) return; onClickTracked?.()
HandleClick(props) ==
    IF ~Truthy(ClickUrlOf(props.ad)) \/ props.onClickTracked = "absent"
    THEN <<>>
    ELSE << Event("onClickTracked", props.onClickTracked) >>

(***************************************************************************)
(* What AdText and AdBanner render, and what a click on it does.           *)
(***************************************************************************)
\* nothing is rendered
NoOutput ==
    [ element |-> "none", href |-> Undefined, target |-> Undefined, rel |-> Undefined,
      className |-> "absent", onClick |-> FALSE, text |-> Undefined ]

\* mutant: the fallback is dropped
RenderFallback_Dropped(props) == NoOutput

\* <>{fallback}</> : the fallback, or nothing when it is null
RenderFallback(props) ==
    IF props.fallback = "absent" THEN NoOutput
    ELSE [ NoOutput EXCEPT !.element = "fallback", !.text = JSStr(props.fallback) ]

\* mutant: AdText renders the link element whether or not there is a clickUrl
RenderAdText_AlwaysLink(props) ==
    IF IsNullAd(props.ad) THEN RenderFallback(props)
    ELSE [ element |-> "a",
           href |-> IF Truthy(props.ad.clickUrl) THEN props.ad.clickUrl ELSE Undefined,
           target |-> IF Truthy(props.ad.clickUrl) /\ OpenInNewTab(props)
                      THEN JSStr("_blank") ELSE Undefined,
           rel |-> IF ~Truthy(props.ad.clickUrl) THEN Undefined
                   ELSE IF OpenInNewTab(props)
                        THEN JSStr("noopener noreferrer sponsored")
                        ELSE JSStr("sponsored"),
           className |-> props.className, onClick |-> TRUE,
           text |-> props.ad.adText ]

\* AdText: fallback, <a href target rel onClick>adText</a>, or <span>adText</span>
RenderAdText(props) ==
    IF IsNullAd(props.ad) THEN RenderFallback(props)
    ELSE IF Truthy(props.ad.clickUrl)
         THEN [ element |-> "a", href |-> props.ad.clickUrl,
                target |-> IF OpenInNewTab(props) THEN JSStr("_blank") ELSE Undefined,
                rel |-> IF OpenInNewTab(props)
                        THEN JSStr("noopener noreferrer sponsored")
                        ELSE JSStr("sponsored"),
                className |-> props.className, onClick |-> TRUE,
                text |-> props.ad.adText ]
         ELSE [ NoOutput EXCEPT !.element = "span", !.className = props.className,
                                !.text = props.ad.adText ]

\* mutant: the link of AdBanner is not marked as sponsored
LinkProps_NoSponsored(props) ==
    IF Truthy(props.ad.clickUrl)
    THEN [ href |-> props.ad.clickUrl,
           target |-> IF OpenInNewTab(props) THEN JSStr("_blank") ELSE Undefined,
           rel |-> IF OpenInNewTab(props) THEN JSStr("noopener noreferrer")
                   ELSE Undefined ]
    ELSE [ href |-> Undefined, target |-> Undefined, rel |-> Undefined ]

\* AdBanner: linkProps = ad.clickUrl ? { href, target, rel } : {}
LinkProps(props) ==
    IF Truthy(props.ad.clickUrl)
    THEN [ href |-> props.ad.clickUrl,
           target |-> IF OpenInNewTab(props) THEN JSStr("_blank") ELSE Undefined,
           rel |-> IF OpenInNewTab(props)
                   THEN JSStr("noopener noreferrer sponsored")
                   ELSE JSStr("sponsored") ]
    ELSE [ href |-> Undefined, target |-> Undefined, rel |-> Undefined ]

\* AdBanner: fallback, or <a {...linkProps} onClick><p>adText</p></a>
RenderAdBanner(props) ==
    IF IsNullAd(props.ad) THEN RenderFallback(props)
    ELSE [ element |-> "a", href |-> LinkProps(props).href,
           target |-> LinkProps(props).target, rel |-> LinkProps(props).rel,
           className |-> props.className, onClick |-> TRUE,
           text |-> props.ad.adText ]

Render(kind, props) ==
    IF kind = "AdText" THEN RenderAdText(props) ELSE RenderAdBanner(props)

\* mutant: the caller's onClick runs ahead of the click tracking
HandleClickInternal_OnClickFirst(props) ==
    (IF props.onClick # "absent" THEN << Event("onClick", props.onClick) >> ELSE <<>>)
    \o HandleClick(props)
    \o (IF ~Truthy(props.ad.clickUrl) THEN << Event("preventDefault", "") >> ELSE <<>>)

\* handleClickInternal: handleClick(); onClick?.(); if (!ad.clickUrl) e.preventDefault()
HandleClickInternal(props) ==
    HandleClick(props)
    \o (IF props.onClick # "absent" THEN << Event("onClick", props.onClick) >> ELSE <<>>)
    \o (IF ~Truthy(props.ad.clickUrl) THEN << Event("preventDefault", "") >> ELSE <<>>)

\* a click on the rendered element: its handler, if it has one, then the
\* default action of the browser, which follows the href of a link unless
\* the handler prevented it
ClickEvents(output, props) ==
    LET handled == IF output.onClick THEN HandleClickInternal(props) ELSE <<>>
        prevented == \E k \in DOMAIN handled : handled[k].ev = "preventDefault"
    IN  handled
        \o (IF output.element = "a" /\ output.href # Undefined /\ ~prevented
            THEN << Event("navigate", output.href.str) >> ELSE <<>>)

(***************************************************************************)
(* One component instance: mounted, re-rendered with new props, clicked,   *)
(* unmounted.  Besides the program's state (props of the last render, the  *)
(* ref impressionTracked, the rendered output) an instance records what    *)
(* its effects and handlers did: events of the last commit and click,      *)
(* totals since the mount, and what held in every render since the mount.  *)
(***************************************************************************)
DefaultProps ==
    PropsOf([ ad |-> NullAd, disableImpressionTracking |-> FALSE,
              onImpression |-> "absent" ],
            [ className |-> "absent", openInNewTab |-> "absent", fallback |-> "absent",
              onClick |-> "absent", onClickTracked |-> "absent" ])

Unmounted ==
    [ mounted |-> FALSE, kind |-> "AdText", props |-> DefaultProps,
      impressionTracked |-> FALSE, output |-> NoOutput,
      renders |-> 0, events |-> <<>>, beacons |-> 0, impressionCalls |-> 0,
      adChanged |-> FALSE, sameAd |-> TRUE, trackedAll |-> TRUE,
      callbackAll |-> TRUE, firedFor |-> {}, disabledAll |-> FALSE,
      enabledNow |-> FALSE, clicked |-> FALSE, click |-> <<>> ]

\* the events of one kind in a log
EventsOf(log, ev) == SelectSeq(log, LAMBDA e : e.ev = ev)

\* the instance after React has committed a render with `props`
Commit(c, mount, kind, props) ==
    LET eff == RunEffects(mount, c.props, props, c.impressionTracked)
    IN  [ mounted |-> TRUE, kind |-> kind, props |-> props,
          impressionTracked |-> eff.impressionTracked,
          output |-> Render(kind, props),
          renders |-> c.renders + 1,
          events |-> eff.events,
          beacons |-> c.beacons + Len(EventsOf(eff.events, "beacon")),
          impressionCalls |-> c.impressionCalls
                              + Len(EventsOf(eff.events, "onImpression")),
          adChanged |-> ~mount /\ ~IsNullAd(c.props.ad)
                        /\ ImpUrlOf(c.props.ad) # ImpUrlOf(props.ad),
          sameAd |-> mount \/ (c.sameAd /\ ImpUrlOf(c.props.ad) = ImpUrlOf(props.ad)),
          trackedAll |-> c.trackedAll /\ ~props.disableImpressionTracking,
          callbackAll |-> c.callbackAll /\ props.onImpression # "absent",
          firedFor |-> c.firedFor
                       \cup { eff.events[k].arg :
                                k \in { n \in DOMAIN eff.events :
                                          eff.events[n].ev = "beacon" } },
          disabledAll |-> (mount \/ c.disabledAll) /\ props.disableImpressionTracking,
          enabledNow |-> ~mount /\ c.disabledAll /\ ~props.disableImpressionTracking,
          clicked |-> FALSE, click |-> <<>> ]

\* mutant: the latch is one module-level flag that all instances share
UseRef_ModuleLevel(i, initial) ==
    IF \E j \in DOMAIN comps : comps[j].mounted
    THEN \E j \in DOMAIN comps : comps[j].mounted /\ comps[j].impressionTracked
    ELSE initial

\* useRef(initial): the ref of instance i, created when the instance mounts
UseRef(i, initial) ==
    IF comps[i].mounted THEN comps[i].impressionTracked ELSE initial

\* <AdText .../> or <AdBanner .../> is rendered for the first time
Mount(i, kind, track, look) ==
    /\ ~comps[i].mounted
    /\ comps' = [ comps EXCEPT ![i] =
                    Commit([ Unmounted EXCEPT !.impressionTracked = UseRef(i, FALSE) ],
                           TRUE, kind, PropsOf(track, look)) ]
    /\ UNCHANGED <<ctor, client, calls, flow>>

\* the parent renders again and passes props, changed or not
Rerender(i, track, look) ==
    /\ comps[i].mounted
    /\ comps[i].renders < MaxRenders
    /\ comps' = [ comps EXCEPT ![i] =
                    Commit([ comps[i] EXCEPT !.impressionTracked = UseRef(i, FALSE) ],
                           FALSE, comps[i].kind, PropsOf(track, look)) ]
    /\ UNCHANGED <<ctor, client, calls, flow>>

\* the user clicks the rendered ad
Click(i) ==
    /\ comps[i].mounted
    /\ comps[i].output.element \in { "a", "span" }
    /\ comps' = [ comps EXCEPT ![i].clicked = TRUE,
                               ![i].click = ClickEvents(comps[i].output, comps[i].props) ]
    /\ UNCHANGED <<ctor, client, calls, flow>>

\* the component is removed; its ref and its state are gone
Unmount(i) ==
    /\ comps[i].mounted
    /\ comps' = [ comps EXCEPT ![i] = Unmounted ]
    /\ UNCHANGED <<ctor, client, calls, flow>>

InitReact ==
    /\ ctor = [ variant |-> "v1", apiKey |-> JSStr("K1"), params |-> EmptyObj ]
    /\ client = Construct(ctor.variant, ctor.apiKey, ctor.params)
    /\ calls = [ i \in {} |-> IdleCall ]
    /\ flow = IdleFlow
    /\ comps = [ i \in {1} |-> Unmounted ]

NextReact ==
    \/ \E i \in DOMAIN comps, kind \in { "AdBanner", "AdText" },
          track \in TrackProps, look \in LookProps : Mount(i, kind, track, look)
    \/ \E i \in DOMAIN comps, track \in TrackProps, look \in LookProps :
          Rerender(i, track, look)
    \/ \E i \in DOMAIN comps : Click(i)
    \/ \E i \in DOMAIN comps : Unmount(i)

SpecReact == InitReact /\ [][NextReact]_vars

(***************************************************************************)
(* Properties of the components.                                           *)
(***************************************************************************)
\* the mounted instances
MountedComps == { i \in DOMAIN comps : comps[i].mounted }

\* the impression URL the last render of instance i showed
ShownImpUrl(i) == ImpUrlOf(comps[i].props.ad)

\* the last render of instance i shows an ad without a usable impUrl or clickUrl
NotTracking(i) ==
    \/ comps[i].props.disableImpressionTracking
    \/ IsNullAd(comps[i].props.ad)
    \/ ~Truthy(ShownImpUrl(i))
HasClickUrl(i) == Truthy(ClickUrlOf(comps[i].props.ad))

\* C13: an instance that has shown the same ad (one impUrl) in every render
\* since its mount, with tracking enabled in every render, has fired exactly
\* one beacon, whatever else changed between the renders.
C13_OneBeaconForSameAd ==
    \A i \in MountedComps :
      (comps[i].sameAd /\ comps[i].trackedAll /\ Truthy(ShownImpUrl(i)))
        => comps[i].beacons = 1

\* C14: the render on which the ad changed to one with another impUrl, with
\* tracking enabled since the mount, fired exactly one beacon, to the new impUrl.
C14_AdChangeFiresOneBeacon ==
    \A i \in MountedComps :
      (comps[i].adChanged /\ comps[i].trackedAll /\ Truthy(ShownImpUrl(i)))
        => EventsOf(comps[i].events, "beacon")
             = << Event("beacon", ShownImpUrl(i).str) >>

\* C15: a render with disableImpressionTracking, with a null ad or with an ad
\* whose impUrl is absent or empty fires no beacon and calls no onImpression.
C15_NoBeaconWhenNotTracking ==
    \A i \in MountedComps : NotTracking(i) => comps[i].events = <<>>

\* tracking was switched off on a re-render of an ad that has an impUrl
C15_Witness ==
    \E i \in MountedComps :
      /\ comps[i].props.disableImpressionTracking
      /\ comps[i].props.ad = AdA
      /\ comps[i].props.onImpression = "onImpression2"
      /\ comps[i].renders = 2 /\ comps[i].beacons = 1
      /\ comps[i].events = <<>>

\* C16: onImpression is called only right after a beacon was issued, and once
\* for every beacon issued while a callback is passed; an instance that was
\* passed a callback in every render has made as many calls as beacons.
C16_OneCallPerBeacon ==
    \A i \in MountedComps :
      LET log == comps[i].events
      IN  /\ \A k \in DOMAIN log :
               log[k].ev = "onImpression"
                 => k > 1 /\ log[k-1].ev = "beacon"
                    /\ log[k].arg = comps[i].props.onImpression
          /\ comps[i].props.onImpression # "absent"
               => \A k \in DOMAIN log :
                    log[k].ev = "beacon"
                      => k < Len(log) /\ log[k+1].ev = "onImpression"
          /\ comps[i].impressionCalls <= comps[i].beacons
          /\ comps[i].callbackAll => comps[i].impressionCalls = comps[i].beacons

\* two beacons, each followed by its call
C16_Witness ==
    \E i \in MountedComps :
      /\ comps[i].callbackAll
      /\ comps[i].beacons = 2 /\ comps[i].impressionCalls = 2
      /\ comps[i].events = << Event("beacon", "https://t/i2"),
                              Event("onImpression", "onImpression1") >>

\* C17: with ad = null the components render the fallback when one is passed
\* and nothing otherwise; there is no ad element, no beacon, no click handler.
C17_NullAdRendersFallback ==
    \A i \in MountedComps :
      IsNullAd(comps[i].props.ad)
        => /\ comps[i].output.element
                = (IF comps[i].props.fallback = "absent" THEN "none" ELSE "fallback")
           /\ comps[i].props.fallback # "absent"
                => comps[i].output.text = JSStr(comps[i].props.fallback)
           /\ comps[i].props.fallback = "absent" => comps[i].output = NoOutput
           /\ comps[i].output.href = Undefined
           /\ ~comps[i].output.onClick
           /\ comps[i].events = <<>>
           /\ ~comps[i].clicked

\* an AdBanner that showed an ad is re-rendered with ad = null and a fallback
C17_Witness ==
    \E i \in MountedComps :
      /\ comps[i].kind = "AdBanner"
      /\ IsNullAd(comps[i].props.ad)
      /\ comps[i].props.fallback = "No ad"
      /\ comps[i].output.element = "fallback"
      /\ comps[i].renders = 2 /\ comps[i].beacons = 1

\* the callback a click is expected to invoke, when the caller passed it
Expected(ev, callback) == IF callback = "absent" THEN <<>> ELSE << Event(ev, callback) >>

\* C18: a click on an ad with a clickUrl calls onClickTracked once, then
\* onClick once, and then the browser follows the clickUrl: the default
\* action is not prevented.
C18_ClickCallsThenNavigates ==
    \A i \in MountedComps :
      (comps[i].clicked /\ HasClickUrl(i))
        => comps[i].click
             = Expected("onClickTracked", comps[i].props.onClickTracked)
               \o Expected("onClick", comps[i].props.onClick)
               \o << Event("navigate", comps[i].props.ad.clickUrl.str) >>

\* an AdBanner with both callbacks was clicked
C18_Witness ==
    \E i \in MountedComps :
      /\ comps[i].kind = "AdBanner"
      /\ comps[i].clicked
      /\ comps[i].click = << Event("onClickTracked", "onClickTracked"),
                             Event("onClick", "onClick"),
                             Event("navigate", "https://t/c2") >>

\* C19 as stated: for an ad without clickUrl both components render an
\* element that is no link and has no click handler, and a click on it does
\* nothing.
C19_NoClickUrlNoClickHandling ==
    \A i \in MountedComps :
      (~IsNullAd(comps[i].props.ad) /\ ~HasClickUrl(i))
        => /\ comps[i].output.href = Undefined
           /\ ~comps[i].output.onClick
           /\ comps[i].clicked => comps[i].click = <<>>

\* C19: for an ad without clickUrl (absent or empty) a click causes no
\* navigation and no onClickTracked call.  AdText renders a <span> without a
\* click handler.  AdBanner renders an <a> without href, target and rel that
\* keeps its click handler: a click calls the caller's onClick, if passed,
\* and prevents the default action.
C19_NoClickUrlNoNavigation ==
    \A i \in MountedComps :
      (~IsNullAd(comps[i].props.ad) /\ ~HasClickUrl(i))
        => /\ comps[i].output.href = Undefined
           /\ comps[i].output.target = Undefined
           /\ comps[i].output.rel = Undefined
           /\ comps[i].output.text = comps[i].props.ad.adText
           /\ comps[i].kind = "AdText"
                => /\ comps[i].output.element = "span"
                   /\ ~comps[i].output.onClick
                   /\ comps[i].clicked => comps[i].click = <<>>
           /\ comps[i].kind = "AdBanner"
                => /\ comps[i].output.element = "a"
                   /\ comps[i].output.onClick
                   /\ comps[i].clicked
                        => comps[i].click
                             = Expected("onClick", comps[i].props.onClick)
                               \o << Event("preventDefault", "") >>

\* an AdBanner showing an ad with an empty clickUrl was clicked
C19_Witness ==
    \E i \in MountedComps :
      /\ comps[i].kind = "AdBanner"
      /\ comps[i].props.ad = AdEmptyUrls
      /\ comps[i].props.onClickTracked = "onClickTracked"
      /\ comps[i].clicked
      /\ comps[i].click = << Event("onClick", "onClick"), Event("preventDefault", "") >>

\* C20: for an ad with a clickUrl both components render a link to it; with
\* openInNewTab true or left out it has target _blank and rel 'noopener
\* noreferrer sponsored', with openInNewTab false no target and rel 'sponsored'.
C20_LinkAttributes ==
    \A i \in MountedComps :
      HasClickUrl(i)
        => /\ comps[i].output.element = "a"
           /\ comps[i].output.href = comps[i].props.ad.clickUrl
           /\ comps[i].props.openInNewTab \in { "absent", "true" }
                => /\ comps[i].output.target = JSStr("_blank")
                   /\ comps[i].output.rel = JSStr("noopener noreferrer sponsored")
           /\ comps[i].props.openInNewTab = "false"
                => /\ comps[i].output.target = Undefined
                   /\ comps[i].output.rel = JSStr("sponsored")

\* an AdBanner link that opens in the same tab
C20_Witness ==
    \E i \in MountedComps :
      /\ comps[i].kind = "AdBanner"
      /\ comps[i].props.openInNewTab = "false"
      /\ comps[i].output.href = JSStr("https://t/c2")
      /\ comps[i].output.rel = JSStr("sponsored")

(***************************************************************************)
(* Several getAd calls in flight on one client.                            *)
(***************************************************************************)
\* defaults a client may be constructed with
ConcClientParams ==
    { EmptyObj, [ relevancy |-> JSNum(0) ],
      [ excludedTopics |-> DefaultTopics, relevancy |-> JSNum(60) ] }

\* what the concurrent callers pass
ConcAdParams ==
    { [ messages |-> Messages ],
      [ messages |-> Messages, relevancy |-> Null ],
      [ messages |-> Messages, excludedTopics |-> JSArr(<<>>), relevancy |-> JSNum(0) ],
      [ messages |-> Messages, sessionId |-> JSStr("s1"),
        interests |-> JSArr(<< "coding" >>), apiKey |-> CallApiKey,
        excludedTopics |-> CallTopics, relevancy |-> JSNum(80) ] }

\* how their POSTs settle
ConcOutcomes ==
    { ServerResponse(200, ArrayData(<< GoodAd >>)), ServerResponse(200, ObjectData(GoodAd)),
      ServerResponse(204, EmptyData), ServerResponse(500, ErrorBody),
      NoResponse("ERR_NETWORK") }

InitConc ==
    /\ ctor \in [ variant : {"legacy", "v1"}, apiKey : ApiKeys, params : ConcClientParams ]
    /\ client = Construct(ctor.variant, ctor.apiKey, ctor.params)
    /\ calls = [ i \in {1, 2} |-> IdleCall ]
    /\ flow = IdleFlow
    /\ comps = NoComps

NextConc ==
    \/ \E i \in DOMAIN calls, params \in ConcAdParams : CallGetAdV1(i, params)
    \/ \E i \in DOMAIN calls, params \in ConcAdParams : CallGetAdLegacy(i, params)
    \/ \E i \in DOMAIN calls, outcome \in ConcOutcomes : SettleGetAdV1(i, outcome)
    \/ \E i \in DOMAIN calls, outcome \in ConcOutcomes : SettleGetAdLegacy(i, outcome)
    \/ \E i \in DOMAIN calls : Consume(i)

SpecConc == InitConc /\ [][NextConc]_vars

\* the calls that were passed neither excludedTopics nor relevancy
WithoutOverrides == { i \in Issued : DOMAIN calls[i].arg \cap MergedFields = {} }

\* C21: the client is in every state what the constructor made of its
\* arguments, whatever calls were made with whatever overrides and outcomes,
\* and a call without overrides sends exactly the constructor's defaults.
C21_ClientConfigNeverChanges ==
    /\ client = Construct(ctor.variant, ctor.apiKey, ctor.params)
    /\ \A i \in WithoutOverrides :
         /\ calls[i].posts[1].baseURL = client.endpoint
         /\ \A f \in MergedFields : BodyOf(i)[f] = StoredDefault(f)

\* a call with overrides has failed and a call without overrides is in flight
C21_Witness ==
    \E i \in Settled, j \in WithoutOverrides :
      /\ calls[j].state = "pending"
      /\ Get(calls[i].arg, "relevancy") = JSNum(80)
      /\ Get(calls[i].arg, "excludedTopics") = CallTopics
      /\ calls[i].outcome.status = 500
      /\ BodyOf(j)["relevancy"] = JSNum(60)
      /\ BodyOf(j)["excludedTopics"] = DefaultTopics

\* what a call of this client does with the outcome of its own POST
OwnSettle(outcome) ==
    IF client.variant = "v1" THEN GetAdV1Settle(outcome) ELSE GetAdLegacySettle(outcome)

\* the requests a call of this client sends for the parameters it was passed
OwnPosts(params) ==
    IF client.variant = "v1" THEN GetAdV1Posts(client, params)
    ELSE GetAdLegacyPosts(client, params)

\* every call in flight or returned has sent its own POST, built from its
\* own parameters, and a returned call holds what its own outcome yields
C22_EachCallOnItsOwn ==
    /\ \A i \in Issued :
         Len(calls[i].posts) = 1 /\ calls[i].posts = OwnPosts(calls[i].arg)
    /\ \A i \in Settled :
         /\ calls[i].promise = OwnSettle(calls[i].outcome).promise
         /\ calls[i].result = OwnSettle(calls[i].outcome).result
         /\ calls[i].console = OwnSettle(calls[i].outcome).console

\* no step of one call touches a call that is in flight or has returned,
\* except the step of that call itself
C22_OtherCallsUntouched ==
    \A i \in DOMAIN calls :
      \/ calls'[i] = calls[i]
      \/ \A j \in DOMAIN calls \ {i} : calls'[j] = calls[j]

\* C22: calls in flight at once complete in any order; each sends its own
\* POST (identical requests included) and returns what its own response
\* yields, whatever the other calls were passed and however they ended.
C22_ConcurrentCallsIndependent ==
    [] C22_EachCallOnItsOwn /\ [][ C22_OtherCallsUntouched ]_vars

\* two calls with the same parameters: the second returned an ad while the
\* first, answered later, failed
C22_Witness ==
    /\ calls[1].arg = calls[2].arg
    /\ calls[1].posts = calls[2].posts /\ Len(calls[1].posts) = 1
    /\ calls[1].state = "settled" /\ calls[2].state = "settled"
    /\ calls[1].outcome.status = 500 /\ calls[1].result = NullResult
    /\ calls[2].outcome.status = 200 /\ calls[2].result # NullResult

\* C23: every key/value pair of the parameters other than excludedTopics and
\* relevancy is in the body under the same key with the same value, and for
\* these two fields the body holds the merged value, not what the spread of
\* the parameters put there (a null passed per call gives way to the default).
C23_ExtraFieldsPassFixedFieldsWin ==
    \A i \in Issued :
      /\ \A k \in DOMAIN calls[i].arg \ MergedFields :
           k \in DOMAIN BodyOf(i) /\ BodyOf(i)[k] = calls[i].arg[k]
      /\ \A f \in MergedFields :
           /\ f \in DOMAIN BodyOf(i)
           /\ Get(calls[i].arg, f).type \in { "undefined", "null" }
                => BodyOf(i)[f] = StoredDefault(f)
           /\ Get(calls[i].arg, f).type \notin { "undefined", "null" }
                => BodyOf(i)[f] = calls[i].arg[f]

\* one call passed publisher fields, another a null relevancy to a client
\* whose default is 60
C23_Witness ==
    \E i \in Issued, j \in Issued :
      /\ ctor.variant = "v1"
      /\ Get(BodyOf(i), "interests") = JSArr(<< "coding" >>)
      /\ Get(BodyOf(i), "sessionId") = JSStr("s1")
      /\ BodyOf(i)["relevancy"] = JSNum(80)
      /\ calls[j].arg = [ messages |-> Messages, relevancy |-> Null ]
      /\ BodyOf(j)["relevancy"] = JSNum(60)

(***************************************************************************)
(* Several components on one page, as in the example App, which renders    *)
(* two AdBanner and one AdText with the same ad.                           *)
(***************************************************************************)
\* the ads and callbacks the page passes; tracking stays enabled
MultiTrackProps ==
    [ ad : { AdA, AdB }, disableImpressionTracking : { FALSE },
      onImpression : { "onImpression1", "onImpression2" } ]

MultiLook ==
    [ className |-> "absent", openInNewTab |-> "absent", fallback |-> "No ad",
      onClick |-> "absent", onClickTracked |-> "absent" ]

InitMulti ==
    /\ ctor = [ variant |-> "v1", apiKey |-> JSStr("K1"), params |-> EmptyObj ]
    /\ client = Construct(ctor.variant, ctor.apiKey, ctor.params)
    /\ calls = [ i \in {} |-> IdleCall ]
    /\ flow = IdleFlow
    /\ comps = [ i \in {1, 2} |-> Unmounted ]

NextMulti ==
    \/ \E i \in DOMAIN comps, kind \in { "AdBanner", "AdText" },
          track \in MultiTrackProps : Mount(i, kind, track, MultiLook)
    \/ \E i \in DOMAIN comps, track \in MultiTrackProps : Rerender(i, track, MultiLook)
    \/ \E i \in DOMAIN comps : Unmount(i)

SpecMulti == InitMulti /\ [][NextMulti]_vars

\* an instance that has just mounted with an ad has fired its beacon,
\* whatever the other instances have gone through
C24_MountFiresOwnBeacon ==
    \A i \in MountedComps :
      (comps[i].renders = 1 /\ ~NotTracking(i))
        => /\ comps[i].beacons = 1
           /\ comps[i].events[1] = Event("beacon", ShownImpUrl(i).str)

\* a render, ad change or unmount of one instance leaves the others as they are
C24_OthersUntouched ==
    \A i \in DOMAIN comps :
      \/ comps'[i] = comps[i]
      \/ \A j \in DOMAIN comps \ {i} : comps'[j] = comps[j]

\* C24: the impression latch belongs to one instance: what one instance goes
\* through never changes whether another fires its beacon, so instances
\* mounted at the same time with the same ad each fire their own.
C24_LatchPerInstance ==
    [] C24_MountFiresOwnBeacon /\ [][ C24_OthersUntouched ]_vars

\* instance 1 holds a closed latch for the ad that instance 2 has just
\* mounted with, and instance 2 has fired its own beacon
C24_Witness ==
    /\ comps[1].mounted /\ comps[2].mounted
    /\ comps[1].props.ad = AdA /\ comps[2].props.ad = AdA
    /\ comps[1].impressionTracked
    /\ comps[2].renders = 1 /\ comps[2].beacons = 1

\* C25: a failed getAd has written exactly one console.error line, tagged
\* with the method name; an axios error with a response gives 'API Error'
\* with status, statusText and body, else one with a request 'Network Error'
\* with the error code, else 'Request Error' with the message; any other
\* error gives 'Unexpected Error'.
C25_OneErrorLineByPriority ==
    \A i \in Settled :
      calls[i].outcome.settled = "rejected"
        => LET e == calls[i].outcome
               line == calls[i].console[1]
           IN  /\ Len(calls[i].console) = 1
               /\ line.method = "getAd"
               /\ line.tag = (IF ~e.isAxiosError THEN "Unexpected Error"
                              ELSE IF e.hasResponse THEN "API Error"
                              ELSE IF e.hasRequest THEN "Network Error"
                              ELSE "Request Error")
               /\ line.tag = "API Error"
                    => /\ line.status = e.status
                       /\ line.statusText = StatusText(e.status)
                       /\ line.data = e.data
               /\ line.tag = "Network Error" => line.code = e.code
               /\ line.tag \in { "Request Error", "Unexpected Error" }
                    => line.message = e.message

\* a validation failure was logged with its status, reason phrase and body
C25_Witness ==
    \E i \in Settled :
      /\ calls[i].outcome.status = 422
      /\ calls[i].console
           = << [ method |-> "getAd", tag |-> "API Error", status |-> 422,
                  statusText |-> "Unprocessable Entity", data |-> ErrorBody,
                  code |-> "", message |-> "" ] >>

\* C26: after every commit the latch of an instance is true exactly when the
\* instance has fired a beacon for the impUrl of the ad it displays.
C26_LatchMeansBeaconFired ==
    \A i \in MountedComps :
      comps[i].impressionTracked
        <=> ( Truthy(ShownImpUrl(i)) /\ ShownImpUrl(i).str \in comps[i].firedFor )

\* C27: an instance mounted with disableImpressionTracking and an ad that has
\* an impUrl, and still showing that ad, fires exactly one beacon for it on
\* the render on which tracking becomes enabled.
C27_EnablingFiresOneBeacon ==
    \A i \in MountedComps :
      (comps[i].enabledNow /\ comps[i].sameAd /\ Truthy(ShownImpUrl(i)))
        => /\ EventsOf(comps[i].events, "beacon")
                = << Event("beacon", ShownImpUrl(i).str) >>
           /\ comps[i].beacons = 1

\* tracking was enabled on the third render of the same ad object
C27_Witness ==
    \E i \in MountedComps :
      /\ comps[i].enabledNow /\ comps[i].sameAd
      /\ comps[i].renders = 3
      /\ comps[i].props.ad = AdA
      /\ comps[i].props.onImpression = "absent"
      /\ comps[i].events = << Event("beacon", "https://t/i1") >>

\* C28: in the merge only a per-call null or undefined gives way to the
\* client's default: a per-call relevancy of 0 and a per-call empty
\* excludedTopics list are sent as they are, a per-call relevancy of null is
\* replaced by the client's relevancy.
C28_OnlyNullishFallsBack ==
    \A i \in Issued :
      /\ Get(calls[i].arg, "relevancy") = JSNum(0) => BodyOf(i)["relevancy"] = JSNum(0)
      /\ Get(calls[i].arg, "excludedTopics") = JSArr(<<>>)
           => BodyOf(i)["excludedTopics"] = JSArr(<<>>)
      /\ Get(calls[i].arg, "relevancy") \in { Null, Undefined }
           => BodyOf(i)["relevancy"] = client.relevancy
      /\ Get(calls[i].arg, "excludedTopics") \in { Null, Undefined }
           => BodyOf(i)["excludedTopics"] = client.excludedTopics

\* on a client with the defaults ['politics'] and 60, one call overrode both
\* with [] and 0 and another passed a null relevancy
C28_Witness ==
    \E i \in Issued, j \in Issued :
      /\ client.excludedTopics = DefaultTopics /\ client.relevancy = JSNum(60)
      /\ calls[i].arg = [ messages |-> Messages, excludedTopics |-> JSArr(<<>>),
                          relevancy |-> JSNum(0) ]
      /\ BodyOf(i)["relevancy"] = JSNum(0)
      /\ BodyOf(i)["excludedTopics"] = JSArr(<<>>)
      /\ calls[j].arg = [ messages |-> Messages, relevancy |-> Null ]
      /\ BodyOf(j)["relevancy"] = JSNum(60)
      /\ BodyOf(j)["excludedTopics"] = DefaultTopics

\* C29: on a legacy client a per-call apiKey replaces the credential in the
\* request body only.  The Authorization header of every request carries the
\* key given at construction, and a call that passes no apiKey carries the
\* construction key in the body too, whatever an earlier call passed.
C29_CallKeyOnlyInBody ==
    ctor.variant = "legacy" =>
      \A i \in Issued :
        /\ calls[i].posts[1].headers.Authorization = "Bearer " \o ctor.apiKey.str
        /\ BodyOf(i)["apiKey"] =
             IF Get(calls[i].arg, "apiKey") \in { Null, Undefined }
             THEN ctor.apiKey
             ELSE Get(calls[i].arg, "apiKey")

\* a call with the per-call key K2 has been answered, and a call without a
\* per-call key has been sent on the same client: K2 is in the first body
\* only, K1 is in both headers and in the second body
C29_Witness ==
    \E i \in Issued, j \in Issued :
      /\ ctor.variant = "legacy" /\ ctor.apiKey = JSStr("K1")
      /\ calls[i].state # "pending"
      /\ Get(calls[i].arg, "apiKey") = CallApiKey
      /\ BodyOf(i)["apiKey"] = CallApiKey
      /\ calls[i].posts[1].headers.Authorization = "Bearer K1"
      /\ Get(calls[j].arg, "apiKey") = Undefined
      /\ BodyOf(j)["apiKey"] = JSStr("K1")
      /\ calls[j].posts[1].headers.Authorization = "Bearer K1"

\* the clients the same params object could be handed to next
OtherClients ==
    { Construct(ctor.variant, k, p) : k \in ApiKeys, p \in ConcClientParams }

\* the body getAd of client c builds from params
BodyOn(c, params) ==
    IF c.variant = "v1" THEN GetAdV1Body(c, params) ELSE GetAdLegacyBody(c, params)

\* C30: getAd leaves the caller's params object as it was passed, while the
\* request is pending and after it settled in any way (ads, 204, error): the
\* merged excludedTopics and relevancy exist in the request body only.  Handed
\* to another client, the same object gets that client's defaults for the
\* fields the caller left out.
C30_ParamsUnchanged ==
    \A i \in Issued :
      /\ calls[i].params = calls[i].arg
      /\ \A c \in OtherClients :
           /\ Get(calls[i].arg, "relevancy") \in { Null, Undefined }
                => BodyOn(c, calls[i].params)["relevancy"] = c.relevancy
           /\ Get(calls[i].arg, "excludedTopics") \in { Null, Undefined }
                => BodyOn(c, calls[i].params)["excludedTopics"] = c.excludedTopics

\* on a client with the defaults ['politics'] and 60, getAd({messages}) has
\* returned ads once and has failed once; the body carried the defaults, the
\* params object still holds messages alone, and a client without defaults
\* would send it with its own values
C30_Witness ==
    \E i \in Issued, j \in Issued :
      /\ client.excludedTopics = DefaultTopics /\ client.relevancy = JSNum(60)
      /\ calls[i].state = "settled" /\ calls[i].outcome.settled = "resolved"
      /\ calls[i].result # NullResult
      /\ calls[j].state = "settled" /\ calls[j].outcome.settled = "rejected"
      /\ \A k \in {i, j} :
           /\ calls[k].arg = [ messages |-> Messages ]
           /\ calls[k].params = [ messages |-> Messages ]
           /\ BodyOf(k)["relevancy"] = JSNum(60)
           /\ BodyOf(k)["excludedTopics"] = DefaultTopics
           /\ \E c \in OtherClients :
                /\ c.relevancy # JSNum(60)
                /\ BodyOn(c, calls[k].params)["relevancy"] = c.relevancy

====
